---- MODULE Spec2Model ----
(***************************************************************************)
(* The three notebooks of FMS_BFieldModel as state machines over their     *)
(* notebook-global variables: Mau11.ipynb (field-map comparison),          *)
(* hps_kn.ipynb (fit-coefficient grids) and the particle-trapping          *)
(* notebook.  A kernel session runs one notebook (nb); a step executes one *)
(* code cell, statement after statement, until the cell ends or a          *)
(* statement raises.  Files on disk and the fit object are the session's   *)
(* environment and are fixed when the session starts.  The kernel runs in  *)
(* pylab mode, as the notebooks need it to: np and plt are bound before    *)
(* any cell runs, every other name is bound by the cell that imports or    *)
(* assigns it.                                                             *)
(***************************************************************************)
EXTENDS Integers, Sequences, FiniteSets, TLC

VARIABLES
    nb,            \* the notebook this kernel session runs
    last,          \* outcome of the most recently executed cell
    imported,      \* the import cell of the notebook has run
    \* ---- Mau11.ipynb
    disk,          \* the two field-map files read by DataFrameMaker
    df_ga05, df_mau11, df_comp,
    dropDone,      \* history: the drop cell has succeeded
    seqMerges,     \* history: merge-cell executions since the last drop
    runPos,        \* history: progress of a drop, merge, difference run: 1, 2,
                   \* then 3 at the end of the first run, 4 at the end of a later one
    firstRun,      \* history: df_comp after the first drop, merge, difference run
    \* ---- hps_kn.ipynb
    fit,           \* the fit object that hallprobesim.py produces
    ff, ff1, labs, As_1, Bs_1, ns, ks, n, k, Ank, Bnk, AB_comb,
    \* ---- the particle-trapping notebook
    h5,            \* the two HDF files
    max_columns,   \* pd.options.display.max_columns
    store, store_xray,
    leaked,        \* a store left open whose name has been bound anew
    peakOpen,      \* history: most stores open at the same moment so far
    df_nttvd, df_ntpart, df_xray, df_nttvd_ele_solo, df_mu, df_mu_single,
    anim,          \* the pair g, fig
    scriptPos      \* history: cells 1..scriptPos have run once each, in order
                   \* (-1: the cells have run in another order)

mauVars == <<disk, df_ga05, df_mau11, df_comp,
             dropDone, seqMerges, runPos, firstRun>>

hpsVars == <<fit, ff, ff1, labs, As_1, Bs_1, ns, ks, n, k, Ank, Bnk, AB_comb>>

trapVars == <<h5, max_columns, store, store_xray, leaked, peakOpen,
              df_nttvd, df_ntpart, df_xray, df_nttvd_ele_solo, df_mu, df_mu_single,
              anim, scriptPos>>

vars == <<nb, last, imported, mauVars, hpsVars, trapVars>>

\* ------------------------------------------------------------------------
\* Bounds of the model
\* ------------------------------------------------------------------------
MaxRows == 2
MaxMerges == 3
MaxN == 2

\* ------------------------------------------------------------------------
\* Sequences
\* ------------------------------------------------------------------------
Iota(len) == [i \in 1..len |-> i]

Pick(s, idx) == [q \in 1..Len(idx) |-> s[idx[q]]]

RECURSIVE Flatten(_)
Flatten(ss) == IF ss = <<>> THEN <<>> ELSE Head(ss) \o Flatten(Tail(ss))

SeqsUpTo(S, len) == UNION { [1..q -> S] : q \in 0..len }

Range(s) == { s[i] : i \in 1..Len(s) }

\* ------------------------------------------------------------------------
\* Data frames: column labels (repeats possible) and rows of values
\* ------------------------------------------------------------------------
Undefined == [def |-> FALSE, cols |-> <<>>, rows |-> <<>>]

Frame(cols, rows) == [def |-> TRUE, cols |-> cols, rows |-> rows]

CountCol(df, c) == Cardinality({ i \in 1..Len(df.cols) : df.cols[i] = c })

HasCol(df, c) == \E i \in 1..Len(df.cols) : df.cols[i] = c

ColIx(df, c) == CHOOSE i \in 1..Len(df.cols) : df.cols[i] = c

Column(df, c) == [r \in 1..Len(df.rows) |-> df.rows[r][ColIx(df, c)]]

\* df[c] = vals: replaces the column labelled c, or appends it as the last one
SetColumn(df, c, vals) ==
    IF HasCol(df, c)
    THEN Frame(df.cols,
               [r \in 1..Len(df.rows) |->
                   [df.rows[r] EXCEPT ![ColIx(df, c)] = vals[r]]])
    ELSE Frame(Append(df.cols, c),
               [r \in 1..Len(df.rows) |-> Append(df.rows[r], vals[r])])

\* ------------------------------------------------------------------------
\* The field maps on disk
\* ------------------------------------------------------------------------
Components == <<"Bx", "By", "Bz", "Br", "Bphi">>

SrcCols == <<"X", "Y", "Z", "Bx", "By", "Bz", "R", "Phi", "Br", "Bphi">>

\* grid points (X, Y, Z) in mm; both lie on the Y axis, so R = X + Y exactly
Grid == { <<0, 0, 6000>>, <<0, 900, 6000>> }

\* the two field maps: (Bx, By, Bz, Br, Bphi) at each grid point
FieldOf(map, g) ==
    IF map = "ga05"
    THEN (IF g[2] = 0 THEN <<10, 20, 40, 80, 160>> ELSE <<11, 23, 47, 95, 191>>)
    ELSE (IF g[2] = 0 THEN <<1, 2, 3, 5, 8>> ELSE <<2, 5, 9, 14, 30>>)

\* one row as the loader delivers it: Cartesian and cylindrical coordinates
\* (Phi in units of pi/2) and the field in both systems
MkRow(g, f) == <<g[1], g[2], g[3], f[1], f[2], f[3],
                 g[1] + g[2], IF g[2] = 0 THEN 0 ELSE 1, f[4], f[5]>>

\* (X, Y, Z) of one row before (or equal to) that of another
KeyLeq(r1, r2) ==
    \/ r1[1] < r2[1]
    \/ r1[1] = r2[1] /\ r1[2] < r2[2]
    \/ r1[1] = r2[1] /\ r1[2] = r2[2] /\ r1[3] <= r2[3]

\* a table samples its map at up to MaxRows points, repeats possible, and
\* comes from the loader sorted by (X, Y, Z)
Tables(map) ==
    { Frame(SrcCols, rows) :
        rows \in { t \in SeqsUpTo({ MkRow(g, FieldOf(map, g)) : g \in Grid }, MaxRows) :
                     \A i \in 1..(Len(t) - 1) : KeyLeq(t[i], t[i + 1]) } }

\* a file is either absent or holds one table
Files(map) == { [present |-> TRUE, table |-> t] : t \in Tables(map) }
                  \cup { [present |-> FALSE, table |-> Undefined] }

\* ------------------------------------------------------------------------
\* pandas, as the cells of Mau11.ipynb use it
\* ------------------------------------------------------------------------
\* DataFrame.drop(labels, axis=1): KeyError unless every label is a column
DropOK(df, labels) == \A c \in labels : HasCol(df, c)

Drop(df, labels) ==
    LET Keep(i) == df.cols[i] \notin labels
        idx == SelectSeq(Iota(Len(df.cols)), Keep)
    IN  Frame(Pick(df.cols, idx),
              [r \in 1..Len(df.rows) |-> Pick(df.rows[r], idx)])

\* the receiver of drop afterwards: without inplace=True it is left as it was
DropInPlace(df, labels) == Drop(df, labels)

DropLeaves(df, labels) == df

\* the non-key labels that occur on both sides of a merge
Overlap(left, right, on) ==
    (Range(left.cols) \ Range(on)) \cap (Range(right.cols) \ Range(on))

Renamed(df, overlap, suffix) ==
    [i \in 1..Len(df.cols) |->
        IF df.cols[i] \in overlap THEN df.cols[i] \o suffix ELSE df.cols[i]]

\* a label that repeats an earlier one only because of the suffix
SuffixDups(df, labels) ==
    { i \in 1..Len(labels) :
        /\ \E j \in 1..(i - 1) : labels[j] = labels[i]
        /\ ~ \E j \in 1..(i - 1) : df.cols[j] = df.cols[i] }

MergeKeysOK(left, right, on) ==
    \A c \in Range(on) : CountCol(left, c) = 1 /\ CountCol(right, c) = 1

MergeClash(left, right, on, lsuffix, rsuffix) ==
    LET ov == Overlap(left, right, on)
    IN  \/ SuffixDups(left, Renamed(left, ov, lsuffix)) # {}
        \/ SuffixDups(right, Renamed(right, ov, rsuffix)) # {}

\* DataFrame.merge(right, on=on, suffixes=(lsuffix, rsuffix)), how='inner':
\* the order of the left rows is kept, every matching pair gives one row
Merge(left, right, on, lsuffix, rsuffix) ==
    LET ov == Overlap(left, right, on)
        lkey == [q \in 1..Len(on) |-> ColIx(left, on[q])]
        rkey == [q \in 1..Len(on) |-> ColIx(right, on[q])]
        NonKey(i) == right.cols[i] \notin Range(on)
        rest == SelectSeq(Iota(Len(right.cols)), NonKey)
        Joined(lrow) ==
            LET Match(rrow) == Pick(rrow, rkey) = Pick(lrow, lkey)
                hits == SelectSeq(right.rows, Match)
            IN  [j \in 1..Len(hits) |-> lrow \o Pick(hits[j], rest)]
    IN  Frame(Renamed(left, ov, lsuffix) \o Pick(Renamed(right, ov, rsuffix), rest),
              Flatten([i \in 1..Len(left.rows) |-> Joined(left.rows[i])]))

\* df[a] - df[b] is a column only when each label names exactly one column:
\* a missing label raises KeyError, a repeated label selects a frame, and a
\* frame cannot be stored into one column (ValueError)
DiffOK(df, a, b) == CountCol(df, a) = 1 /\ CountCol(df, b) = 1

DiffErr(df, a, b) ==
    IF ~HasCol(df, a) \/ ~HasCol(df, b) THEN "KeyError" ELSE "ValueError"

Minus(df, a, b) ==
    [r \in 1..Len(df.rows) |-> Column(df, a)[r] - Column(df, b)[r]]

\* DataFrame.query(cond)[cols].describe(): count, min and max of each column
\* over the selected rows (min and max of no rows shown as 0)
RECURSIVE SeqMin(_)
SeqMin(s) == IF Len(s) = 1 THEN s[1]
             ELSE LET m == SeqMin(Tail(s)) IN IF s[1] < m THEN s[1] ELSE m

RECURSIVE SeqMax(_)
SeqMax(s) == IF Len(s) = 1 THEN s[1]
             ELSE LET m == SeqMax(Tail(s)) IN IF s[1] > m THEN s[1] ELSE m

Describe(df, cols) ==
    { <<cols[q], Len(df.rows),
        IF df.rows = <<>> THEN 0 ELSE SeqMin(Column(df, cols[q])),
        IF df.rows = <<>> THEN 0 ELSE SeqMax(Column(df, cols[q]))>>
      : q \in 1..Len(cols) }

\* ------------------------------------------------------------------------
\* Cell outcomes
\* ------------------------------------------------------------------------
Ok(cell, shown) ==
    [cell |-> cell, ok |-> TRUE, stmt |-> 0, err |-> "", shown |-> shown]

Raised(cell, stmt, err) ==
    [cell |-> cell, ok |-> FALSE, stmt |-> stmt, err |-> err, shown |-> {}]

Loaded == df_ga05.def /\ df_mau11.def

\* ------------------------------------------------------------------------
\* Mau11.ipynb, cell by cell
\* ------------------------------------------------------------------------
\* import os ; from mu2e import mu2e_ext_path ; ... ;
\* plt.rcParams['figure.figsize'] = (12,8)
MauImportCell ==
    /\ nb = "Mau11"
    /\ imported' = TRUE
    /\ last' = Ok("import", {})
    /\ UNCHANGED <<nb, mauVars, hpsVars, trapVars>>

\* df_ga05 = DataFrameMaker(...).data_frame ; df_mau11 = DataFrameMaker(...)
\* the cell as it would run if a failed load were skipped over
RunLoadKeepGoing ==
    [ga05 |-> IF imported /\ disk.ga05.present THEN disk.ga05.table ELSE df_ga05,
     mau11 |-> IF imported /\ disk.mau11.present THEN disk.mau11.table ELSE df_mau11,
     stmt |-> IF ~imported \/ ~disk.ga05.present THEN 1
              ELSE IF ~disk.mau11.present THEN 2 ELSE 0,
     err |-> IF ~imported THEN "NameError" ELSE "FileNotFoundError"]

RunLoad ==
    IF ~imported
    THEN [ga05 |-> df_ga05, mau11 |-> df_mau11, stmt |-> 1, err |-> "NameError"]
    ELSE IF ~disk.ga05.present
    THEN [ga05 |-> df_ga05, mau11 |-> df_mau11, stmt |-> 1, err |-> "FileNotFoundError"]
    ELSE IF ~disk.mau11.present
    THEN [ga05 |-> disk.ga05.table, mau11 |-> df_mau11, stmt |-> 2,
          err |-> "FileNotFoundError"]
    ELSE [ga05 |-> disk.ga05.table, mau11 |-> disk.mau11.table, stmt |-> 0, err |-> ""]

LoadCell ==
    /\ nb = "Mau11"
    /\ df_ga05' = RunLoad.ga05
    /\ df_mau11' = RunLoad.mau11
    /\ last' = IF RunLoad.stmt = 0 THEN Ok("load", {})
               ELSE Raised("load", RunLoad.stmt, RunLoad.err)
    /\ UNCHANGED <<nb, imported, disk, df_comp, dropDone, seqMerges, runPos,
                   firstRun, hpsVars, trapVars>>

\* df_comp = df_ga05.drop(['R','Phi'], axis=1)
DropSource == df_ga05

DropCell ==
    /\ nb = "Mau11"
    /\ IF ~DropSource.def
       THEN /\ last' = Raised("drop", 1, "NameError")
            /\ UNCHANGED <<df_comp, dropDone, seqMerges>>
            /\ runPos' = 0
       ELSE IF ~DropOK(DropSource, {"R", "Phi"})
       THEN /\ last' = Raised("drop", 1, "KeyError")
            /\ UNCHANGED <<df_comp, dropDone, seqMerges>>
            /\ runPos' = 0
       ELSE /\ df_comp' = Drop(DropSource, {"R", "Phi"})
            /\ last' = Ok("drop", {})
            /\ dropDone' = TRUE
            /\ seqMerges' = 0
            /\ runPos' = 1
    /\ df_ga05' = IF DropSource.def /\ DropOK(DropSource, {"R", "Phi"})
                  THEN DropLeaves(df_ga05, {"R", "Phi"}) ELSE df_ga05
    /\ UNCHANGED <<nb, imported, disk, df_mau11, firstRun, hpsVars, trapVars>>

\* df_comp = df_comp.merge(df_mau11.drop(['R','Phi'],axis=1),
\*                         on=['X','Y','Z'], suffixes=('_ga05','_mau11'))
MergeOnXZ == <<"X", "Z">>

MergeOn == <<"X", "Y", "Z">>

MergeSuffixesSwapped == <<"_mau11", "_ga05">>

MergeSuffixes == <<"_ga05", "_mau11">>

\* what stops the merge before it joins anything
MergeErr ==
    IF ~df_comp.def \/ ~df_mau11.def THEN "NameError"
    ELSE IF ~DropOK(df_mau11, {"R", "Phi"}) THEN "KeyError"
    ELSE IF ~MergeKeysOK(df_comp, Drop(df_mau11, {"R", "Phi"}), MergeOn)
    THEN "KeyError"
    ELSE ""

\* a suffix that repeats a label of the same side: pandas raises MergeError
\* from 2.0 on, and before that returns the frame with the repeated labels
MergeCell ==
    /\ nb = "Mau11"
    /\ seqMerges < MaxMerges
    /\ \/ /\ MergeErr # ""
          /\ last' = Raised("merge", 1, MergeErr)
          /\ UNCHANGED df_comp
          /\ runPos' = 0
       \/ /\ MergeErr = ""
          /\ MergeClash(df_comp, Drop(df_mau11, {"R", "Phi"}),
                        MergeOn, MergeSuffixes[1], MergeSuffixes[2])
          /\ last' = Raised("merge", 1, "MergeError")
          /\ UNCHANGED df_comp
          /\ runPos' = 0
       \/ /\ MergeErr = ""
          /\ df_comp' = Merge(df_comp, Drop(df_mau11, {"R", "Phi"}),
                              MergeOn, MergeSuffixes[1], MergeSuffixes[2])
          /\ last' = Ok("merge", {})
          /\ runPos' = IF runPos = 1 THEN 2 ELSE 0
    /\ seqMerges' = IF dropDone THEN seqMerges + 1 ELSE seqMerges
    /\ df_mau11' = IF df_comp.def /\ df_mau11.def /\ DropOK(df_mau11, {"R", "Phi"})
                   THEN DropLeaves(df_mau11, {"R", "Phi"}) ELSE df_mau11
    /\ UNCHANGED <<nb, imported, disk, df_ga05, dropDone, firstRun, hpsVars, trapVars>>

\* df_comp['dBx'] = df_comp['Bx_ga05'] - df_comp['Bx_mau11'], and the same
\* for By, Bz, Br, Bphi: statement k as <<target, minuend, subtrahend>>
DiffStmtReversed(q) ==
    <<"d" \o Components[q], Components[q] \o "_mau11", Components[q] \o "_ga05">>

DiffStmt(q) ==
    <<"d" \o Components[q], Components[q] \o "_ga05", Components[q] \o "_mau11">>

RECURSIVE RunDiff(_, _)
RunDiff(df, q) ==
    IF q > Len(Components) THEN [df |-> df, stmt |-> 0, err |-> ""]
    ELSE LET st == DiffStmt(q)
         IN  IF ~DiffOK(df, st[2], st[3])
             THEN [df |-> df, stmt |-> q, err |-> DiffErr(df, st[2], st[3])]
             ELSE RunDiff(SetColumn(df, st[1], Minus(df, st[2], st[3])), q + 1)

DiffCell ==
    /\ nb = "Mau11"
    /\ IF ~df_comp.def
       THEN /\ last' = Raised("diff", 1, "NameError")
            /\ UNCHANGED df_comp
            /\ runPos' = 0
            /\ UNCHANGED firstRun
       ELSE LET run == RunDiff(df_comp, 1)
            IN  /\ df_comp' = run.df
                /\ last' = IF run.stmt = 0 THEN Ok("diff", {})
                           ELSE Raised("diff", run.stmt, run.err)
                /\ runPos' = IF run.stmt = 0 /\ runPos = 2
                             THEN (IF firstRun.def THEN 4 ELSE 3) ELSE 0
                /\ firstRun' = IF run.stmt = 0 /\ runPos = 2 /\ ~firstRun.def
                               THEN run.df ELSE firstRun
    /\ UNCHANGED <<nb, imported, disk, df_ga05, df_mau11, dropDone, seqMerges, hpsVars, trapVars>>

\* df.query('R<=800 and 5000<=Z<=12000')[['Bx','By','Bz','Br','Bphi']].describe()
QueryErr(df) ==
    IF ~df.def THEN "NameError"
    ELSE IF ~HasCol(df, "R") \/ ~HasCol(df, "Z") THEN "UndefinedVariableError"
    ELSE IF \E q \in 1..Len(Components) : ~HasCol(df, Components[q]) THEN "KeyError"
    ELSE ""

QuerySelect(df) ==
    LET InRegion(row) == /\ row[ColIx(df, "R")] <= 800
                         /\ 5000 <= row[ColIx(df, "Z")]
                         /\ row[ColIx(df, "Z")] <= 12000
    IN  Frame(df.cols, SelectSeq(df.rows, InRegion))

\* the print statement comes first in the GA05 cell only
QueryGa05Cell ==
    /\ nb = "Mau11"
    /\ last' = IF QueryErr(df_ga05) # "" THEN Raised("query_ga05", 2, QueryErr(df_ga05))
               ELSE Ok("query_ga05", Describe(QuerySelect(df_ga05), Components))
    /\ UNCHANGED <<nb, imported, mauVars, hpsVars, trapVars>>

QueryMau11Cell ==
    /\ nb = "Mau11"
    /\ last' = IF QueryErr(df_mau11) # "" THEN Raised("query_mau11", 1, QueryErr(df_mau11))
               ELSE Ok("query_mau11", Describe(QuerySelect(df_mau11), Components))
    /\ UNCHANGED <<nb, imported, mauVars, hpsVars, trapVars>>

\* mu2e_plot3d(df, x, y, z, conditions, ...): the cells that plot, by the line
\* of the notebook they start at
PlotCells ==
    { [cell |-> "plot33", line |-> 33,  of |-> "mau11", x |-> "Z", y |-> "X", z |-> "Bz"],
      [cell |-> "plot74", line |-> 74,  of |-> "comp",  x |-> "Z", y |-> "X", z |-> "dBphi"],
      [cell |-> "plot84", line |-> 84,  of |-> "comp",  x |-> "Z", y |-> "X", z |-> "dBz"],
      [cell |-> "plot113", line |-> 113, of |-> "comp",  x |-> "Z", y |-> "X", z |-> "dBphi"],
      [cell |-> "plot123", line |-> 123, of |-> "comp",  x |-> "Z", y |-> "X", z |-> "dBphi"],
      [cell |-> "plot133", line |-> 133, of |-> "mau11", x |-> "X", y |-> "Y", z |-> "Bphi"],
      [cell |-> "plot143", line |-> 143, of |-> "comp",  x |-> "Z", y |-> "X", z |-> "dBphi"] }

PlotCond(line, X, Y, Z) ==
    CASE line = 33  -> Y = 0
      [] line = 74  -> Y = 500 /\ -1000 <= X /\ X <= 1000 /\ 5000 < Z /\ Z < 12000
      [] line = 84  -> Y = 0 /\ -800 < X /\ X < 800 /\ 5000 < Z /\ Z < 13000
      [] line = 113 -> Y = -1025 /\ 3000 < Z /\ Z < 14500
      [] line = 123 -> Y = -800 /\ 5000 < Z /\ Z < 12000
      [] line = 133 -> Z = 4071
      [] line = 143 -> Y = 200 /\ 5000 < Z /\ Z < 12000

PlotErr(df, p) ==
    IF ~imported \/ ~df.def THEN "NameError"
    ELSE IF \E c \in {"X", "Y", "Z", p.z} : CountCol(df, c) # 1 THEN "KeyError"
    ELSE ""

PlotPoints(df, p) ==
    { <<row[ColIx(df, p.x)], row[ColIx(df, p.y)], row[ColIx(df, p.z)]>> :
        row \in { r \in Range(df.rows) :
                    PlotCond(p.line, r[ColIx(df, "X")], r[ColIx(df, "Y")],
                             r[ColIx(df, "Z")]) } }

PlotCell ==
    /\ nb = "Mau11"
    /\ \E p \in PlotCells :
          LET df == IF p.of = "comp" THEN df_comp ELSE df_mau11
          IN  last' = IF PlotErr(df, p) # "" THEN Raised(p.cell, 1, PlotErr(df, p))
                      ELSE Ok(p.cell, PlotPoints(df, p))
    /\ UNCHANGED <<nb, imported, mauVars, hpsVars, trapVars>>

\* ------------------------------------------------------------------------
\* hps_kn.ipynb: the fit object
\* ------------------------------------------------------------------------
Unbound == [def |-> FALSE]

Bound(v) == [def |-> TRUE, v |-> v]

Digits == <<"0", "1", "2", "3", "4", "5", "6", "7", "8", "9">>

\* parameter names are strings, kept as their characters
CoefName(letter, i, j) == <<letter, "_", Digits[i + 1], "_", Digits[j + 1]>>

Param(name, value, vary) == [name |-> name, value |-> value, vary |-> vary]

CoefValue(letter, i, j) ==
    IF letter = "A" THEN 10 * i + j + 1 ELSE -(10 * i + j) - 2

\* which coefficients the fit left free
IsFree(pattern, i, j) == IF pattern = "all" THEN TRUE ELSE j # 0

\* the coefficients of one letter over a rows x cols index grid, row by row
CoefParams(letter, rows, cols, pattern) ==
    [q \in 1..(rows * cols) |->
        LET i == (q - 1) \div cols
            j == (q - 1) % cols
        IN  Param(CoefName(letter, i, j), CoefValue(letter, i, j),
                  IsFree(pattern, i, j))]

MkFit(nsv, msv, arows, brows, apat, bpat) ==
    [params |-> << Param(<<"R">>, 9000, FALSE),
                   Param(<<"n", "s">>, nsv, FALSE),
                   Param(<<"m", "s">>, msv, FALSE) >>
                \o CoefParams("A", arows, msv, apat)
                \o CoefParams("B", brows, msv, bpat),
     chisqr |-> nsv + msv]

FitObjects ==
    { MkFit(nsv, msv, arows, brows, apat, bpat) :
        nsv \in 1..MaxN, msv \in 1..MaxN, arows \in 1..MaxN, brows \in 1..MaxN,
        apat \in {"all", "j0fixed"}, bpat \in {"all", "j0fixed"} }

\* ------------------------------------------------------------------------
\* Python and numpy, as the cells of hps_kn.ipynb use them
\* ------------------------------------------------------------------------
\* 'A' in name
Contains(name, ch) == \E q \in 1..Len(name) : name[q] = ch

\* name.split('_')
RECURSIVE Split(_, _)
Split(name, sep) ==
    IF ~Contains(name, sep) THEN <<name>>
    ELSE LET q == CHOOSE q \in 1..Len(name) :
                     name[q] = sep /\ \A r \in 1..(q - 1) : name[r] # sep
         IN  <<SubSeq(name, 1, q - 1)>> \o Split(SubSeq(name, q + 1, Len(name)), sep)

\* name[2:]
From2(name) == SubSeq(name, 3, Len(name))

\* params[name]
HasParam(params, name) == \E q \in 1..Len(params) : params[q].name = name

Lookup(params, name) ==
    params[CHOOSE q \in 1..Len(params) : params[q].name = name]

\* the filter of the list comprehensions of lines 54-58; and short-circuits,
\* so split runs only for a free parameter whose name contains the letter
WantsSplit(prm, letter) == Contains(prm.name, letter) /\ prm.vary = TRUE

IsSelected(prm, letter) ==
    WantsSplit(prm, letter) /\ Split(prm.name, "_")[2] # <<"0">>

SelectRaises(params, letter) ==
    \E q \in 1..Len(params) :
        WantsSplit(params[q], letter) /\ Len(Split(params[q].name, "_")) < 2

SelectedParams(params, letter) ==
    LET Test(prm) == IsSelected(prm, letter) IN SelectSeq(params, Test)

\* [params[i] for i in params if letter in i]
WithLetter(params, letter) ==
    LET Test(prm) == Contains(prm.name, letter) IN SelectSeq(params, Test)

Values(prms) == [q \in 1..Len(prms) |-> prms[q].value]

\* range(m)
PyRange(m) == [q \in 1..m |-> q - 1]

\* np.meshgrid(xs, ys): two grids of Len(ys) rows and Len(xs) columns, the
\* first repeating xs along every row, the second ys along every column
MeshgridIJ(xs, ys) ==
    << [i \in 1..Len(xs) |-> [j \in 1..Len(ys) |-> xs[i]]],
       [i \in 1..Len(xs) |-> [j \in 1..Len(ys) |-> ys[j]]] >>

Meshgrid(xs, ys) ==
    << [i \in 1..Len(ys) |-> [j \in 1..Len(xs) |-> xs[j]]],
       [i \in 1..Len(ys) |-> [j \in 1..Len(xs) |-> ys[i]]] >>

\* np.asarray(list).reshape(rows, cols): ValueError unless the sizes agree
ReshapeOK(list, rows, cols) == Len(list) = rows * cols

ReshapeColumnMajor(list, rows, cols) ==
    [i \in 1..rows |-> [j \in 1..cols |-> list[(j - 1) * rows + i]]]

Reshape(list, rows, cols) ==
    [i \in 1..rows |-> [j \in 1..cols |-> list[(i - 1) * cols + j]]]

NRows(g) == Len(g)

NCols(g) == IF Len(g) = 0 THEN 0 ELSE Len(g[1])

\* Ank**2 + Bnk**2, element by element
SumOfSquares(a, b) ==
    [i \in 1..NRows(a) |-> [j \in 1..NCols(a) |->
        a[i][j] * a[i][j] + b[i][j] * b[i][j]]]

Abs(v) == IF v < 0 THEN -v ELSE v

AbsGrid(a) == [i \in 1..NRows(a) |-> [j \in 1..NCols(a) |-> Abs(a[i][j])]]

\* plt.pcolor(X, Y, C): X and Y hold the corners, one more than C each way;
\* C[i][j] fills the quadrilateral between corner (i,j) and corner (i+1,j+1)
PcolorOK(X, Y, C) ==
    /\ NRows(X) = NRows(C) + 1 /\ NCols(X) = NCols(C) + 1
    /\ NRows(Y) = NRows(C) + 1 /\ NCols(Y) = NCols(C) + 1

Pcolor(X, Y, C) ==
    Flatten([i \in 1..NRows(C) |-> [j \in 1..NCols(C) |->
        [x0 |-> X[i][j], y0 |-> Y[i][j],
         x1 |-> X[i + 1][j + 1], y1 |-> Y[i + 1][j + 1], c |-> C[i][j]]]])

\* ------------------------------------------------------------------------
\* hps_kn.ipynb, cell by cell
\* ------------------------------------------------------------------------
\* import os ; ... ; from copy import deepcopy ; from lmfit import ...
HpsImportCell ==
    /\ nb = "hps_kn"
    /\ imported' = TRUE
    /\ last' = Ok("import", {})
    /\ UNCHANGED <<nb, mauVars, hpsVars, trapVars>>

\* run hallprobesim.py: the script leaves the fit object in ff
RunScriptCell ==
    /\ nb = "hps_kn"
    /\ ff' = Bound(fit)
    /\ last' = Ok("run", {})
    /\ UNCHANGED <<nb, imported, trapVars, mauVars, fit, ff1, labs, As_1, Bs_1, ns, ks, n, k, Ank, Bnk, AB_comb>>

\* ff1 = deepcopy(ff)
DeepcopyCell ==
    /\ nb = "hps_kn"
    /\ IF ~imported \/ ~ff.def
       THEN last' = Raised("deepcopy", 1, "NameError") /\ UNCHANGED ff1
       ELSE last' = Ok("deepcopy", {}) /\ ff1' = ff
    /\ UNCHANGED <<nb, imported, trapVars, mauVars, fit, ff, labs, As_1, Bs_1, ns, ks, n, k, Ank, Bnk, AB_comb>>

\* labs = [...] ; As_1 = [...] ; Bs_1 = [...]
LabelLetter == "A"

RunSelect ==
    IF ~ff1.def
    THEN [labs |-> labs, As_1 |-> As_1, Bs_1 |-> Bs_1, stmt |-> 1, err |-> "NameError"]
    ELSE IF SelectRaises(ff1.v.params, LabelLetter)
    THEN [labs |-> labs, As_1 |-> As_1, Bs_1 |-> Bs_1, stmt |-> 1, err |-> "IndexError"]
    ELSE LET newlabs ==
                 Bound([q \in 1..Len(SelectedParams(ff1.v.params, LabelLetter)) |->
                           From2(SelectedParams(ff1.v.params, LabelLetter)[q].name)])
         IN  IF SelectRaises(ff1.v.params, "A")
             THEN [labs |-> newlabs, As_1 |-> As_1, Bs_1 |-> Bs_1,
                   stmt |-> 2, err |-> "IndexError"]
             ELSE LET newAs == Bound(Values(SelectedParams(ff1.v.params, "A")))
                  IN  IF SelectRaises(ff1.v.params, "B")
                      THEN [labs |-> newlabs, As_1 |-> newAs, Bs_1 |-> Bs_1,
                            stmt |-> 3, err |-> "IndexError"]
                      ELSE [labs |-> newlabs, As_1 |-> newAs,
                            Bs_1 |-> Bound(Values(SelectedParams(ff1.v.params, "B"))),
                            stmt |-> 0, err |-> ""]

SelectCell ==
    /\ nb = "hps_kn"
    /\ labs' = RunSelect.labs
    /\ As_1' = RunSelect.As_1
    /\ Bs_1' = RunSelect.Bs_1
    /\ last' = IF RunSelect.stmt = 0 THEN Ok("select", {})
               ELSE Raised("select", RunSelect.stmt, RunSelect.err)
    /\ UNCHANGED <<nb, imported, trapVars, mauVars, fit, ff, ff1, ns, ks, n, k, Ank, Bnk, AB_comb>>

\* plt.plot(range(len(vals)), vals) ; plt.xticks(range(len(vals)), labs)
\* a figure: the points, and the tick label at each position that has one
LinePlot(vals, ticklabels, title) ==
    [title |-> title,
     points |-> [q \in 1..Len(vals) |-> <<q - 1, vals[q]>>],
     ticks |-> [q \in 1..(IF Len(ticklabels) < Len(vals) THEN Len(ticklabels)
                           ELSE Len(vals)) |-> <<q - 1, ticklabels[q]>>]]

PlotACell ==
    /\ nb = "hps_kn"
    /\ last' = IF ~As_1.def THEN Raised("plotA", 1, "NameError")
               ELSE IF ~labs.def THEN Raised("plotA", 3, "NameError")
               ELSE Ok("plotA", LinePlot(As_1.v, labs.v, "Free param values for A"))
    /\ UNCHANGED <<nb, imported, mauVars, hpsVars, trapVars>>

\* with as many labels as ticks the B plot is labelled like the A plot; with
\* another number matplotlib either raises or labels the positions it can
PlotBCell ==
    /\ nb = "hps_kn"
    /\ \/ /\ ~Bs_1.def
          /\ last' = Raised("plotB", 1, "NameError")
       \/ /\ Bs_1.def /\ ~labs.def
          /\ last' = Raised("plotB", 3, "NameError")
       \/ /\ Bs_1.def /\ labs.def
          /\ last' = Ok("plotB", LinePlot(Bs_1.v, labs.v, "Free param values for B"))
       \/ /\ Bs_1.def /\ labs.def /\ Len(labs.v) # Len(Bs_1.v)
          /\ last' = Raised("plotB", 3, "ValueError")
    /\ UNCHANGED <<nb, imported, mauVars, hpsVars, trapVars>>

\* ns = ... ; ks = ... ; k,n = np.meshgrid(...) ; Ank = ... ; Bnk = ... ;
\* AB_comb = Ank**2+Bnk**2 : the variables as the cell leaves them, and the
\* statement that raised (0: none)
RunReshape ==
    LET old == [ns |-> ns, ks |-> ks, n |-> n, k |-> k,
                Ank |-> Ank, Bnk |-> Bnk, AB_comb |-> AB_comb]
    IN  IF ~ff1.def THEN [vars |-> old, stmt |-> 1, err |-> "NameError"]
        ELSE IF ~HasParam(ff1.v.params, <<"n", "s">>)
        THEN [vars |-> old, stmt |-> 1, err |-> "KeyError"]
        ELSE LET nsv == Lookup(ff1.v.params, <<"n", "s">>).value
                 s1 == [old EXCEPT !.ns = Bound(nsv)]
             IN  IF ~HasParam(ff1.v.params, <<"m", "s">>)
                 THEN [vars |-> s1, stmt |-> 2, err |-> "KeyError"]
                 ELSE LET ksv == Lookup(ff1.v.params, <<"m", "s">>).value
                          mesh == Meshgrid(PyRange(ksv + 1), PyRange(nsv + 1))
                          s3 == [s1 EXCEPT !.ks = Bound(ksv), !.k = Bound(mesh[1]),
                                           !.n = Bound(mesh[2])]
                          alist == Values(WithLetter(ff1.v.params, "A"))
                          blist == Values(WithLetter(ff1.v.params, "B"))
                      IN  IF ~ReshapeOK(alist, nsv, ksv)
                          THEN [vars |-> s3, stmt |-> 4, err |-> "ValueError"]
                          ELSE LET s4 == [s3 EXCEPT !.Ank = Bound(Reshape(alist, nsv, ksv))]
                               IN  IF ~ReshapeOK(blist, nsv, ksv)
                                   THEN [vars |-> s4, stmt |-> 5, err |-> "ValueError"]
                                   ELSE [vars |-> [s4 EXCEPT
                                            !.Bnk = Bound(Reshape(blist, nsv, ksv)),
                                            !.AB_comb = Bound(SumOfSquares(
                                                Reshape(alist, nsv, ksv),
                                                Reshape(blist, nsv, ksv)))],
                                         stmt |-> 0, err |-> ""]

ReshapeCell ==
    /\ nb = "hps_kn"
    /\ ns' = RunReshape.vars.ns
    /\ ks' = RunReshape.vars.ks
    /\ n' = RunReshape.vars.n
    /\ k' = RunReshape.vars.k
    /\ Ank' = RunReshape.vars.Ank
    /\ Bnk' = RunReshape.vars.Bnk
    /\ AB_comb' = RunReshape.vars.AB_comb
    /\ last' = IF RunReshape.stmt = 0 THEN Ok("reshape", {})
               ELSE Raised("reshape", RunReshape.stmt, RunReshape.err)
    /\ UNCHANGED <<nb, imported, trapVars, mauVars, fit, ff, ff1, labs, As_1, Bs_1>>

\* plt.pcolor(n, k, C, ...) ; plt.title ; plt.xlabel('n') ; plt.ylabel('k')
Heatmap(C, title) ==
    [title |-> title, xlabel |-> "n", ylabel |-> "k", quads |-> Pcolor(n.v, k.v, C)]

HeatmapErr(C) ==
    IF ~n.def \/ ~k.def \/ ~C.def THEN "NameError"
    ELSE IF ~PcolorOK(n.v, k.v, C.v) THEN "TypeError"
    ELSE ""

\* the Ank and Bnk heat maps (statement 2 and, after plt.figure(), statement 8)
PcolorCell ==
    /\ nb = "hps_kn"
    /\ last' = IF HeatmapErr(Ank) # "" THEN Raised("pcolor", 2, HeatmapErr(Ank))
               ELSE IF HeatmapErr(Bnk) # "" THEN Raised("pcolor", 8, HeatmapErr(Bnk))
               ELSE Ok("pcolor", << Heatmap(Ank.v, "Ank for 8 Slices"),
                                    Heatmap(Bnk.v, "Bnk for 8 Slices") >>)
    /\ UNCHANGED <<nb, imported, mauVars, hpsVars, trapVars>>

PcolorAbsCell ==
    /\ nb = "hps_kn"
    /\ last' = IF HeatmapErr(Ank) # "" THEN Raised("pcolor_abs", 2, HeatmapErr(Ank))
               ELSE IF HeatmapErr(Bnk) # "" THEN Raised("pcolor_abs", 8, HeatmapErr(Bnk))
               ELSE Ok("pcolor_abs", << Heatmap(AbsGrid(Ank.v), "abs(Ank)"),
                                        Heatmap(AbsGrid(Bnk.v), "abs(Bnk)") >>)
    /\ UNCHANGED <<nb, imported, mauVars, hpsVars, trapVars>>

\* the Ank^2+Bnk^2 heat map, annotated with chi2 of the fit
PcolorCombCell ==
    /\ nb = "hps_kn"
    /\ last' = IF HeatmapErr(AB_comb) # "" THEN Raised("pcolor_comb", 2, HeatmapErr(AB_comb))
               ELSE IF ~ff1.def THEN Raised("pcolor_comb", 8, "NameError")
               ELSE Ok("pcolor_comb", << [Heatmap(AB_comb.v, "Ank^2+Bnk^2") EXCEPT
                                             !.title = <<"Ank^2+Bnk^2", ff1.v.chisqr>>] >>)
    /\ UNCHANGED <<nb, imported, mauVars, hpsVars, trapVars>>

\* ff1.result.chisqr
ChisqrCell ==
    /\ nb = "hps_kn"
    /\ last' = IF ~ff1.def THEN Raised("chisqr", 1, "NameError")
               ELSE Ok("chisqr", ff1.v.chisqr)
    /\ UNCHANGED <<nb, imported, mauVars, hpsVars, trapVars>>

\* ------------------------------------------------------------------------
\* The particle-trapping notebook: the HDF files
\* ------------------------------------------------------------------------
NtpartCols == <<"runevt", "pdg", "pstop", "xstop", "ystop", "zstop">>

NttvdCols == <<"runevt", "time", "x", "y", "z">>

\* particle records: two stopped muons (one slow), one electron
NtpartTables ==
    { Frame(NtpartCols, << <<7, 11, 200, 1, 2, 3>>,
                           <<115453, 13, 150, 4, 5, 6000>>,
                           <<9, 13, 50, 7, 8, 9>>,
                           <<115453, 13, 120, 1, 1, 7000>> >>),
      Frame(NtpartCols, << <<7, 11, 200, 1, 2, 3>> >>) }

\* trajectory records, not in time order
NttvdTables ==
    { Frame(NttvdCols, << <<115453, 30, 1, 1, 5>>,
                          <<9, 5, 2, 2, 1>>,
                          <<115453, 10, 3, 3, 7>> >>) }

\* a file: whether its directory exists, and the tables it holds (none when
\* the file is new: HDFStore opens in mode 'a' and creates a missing file)
MuonFiles ==
    { [dir |-> FALSE, tables |-> <<>>] }
    \cup { [dir |-> TRUE, tables |-> [df_nttvd |-> a, df_ntpart |-> b]] :
             a \in NttvdTables \cup {Undefined}, b \in NtpartTables \cup {Undefined} }

XrayFiles ==
    { [dir |-> FALSE, tables |-> <<>>] }
    \cup { [dir |-> TRUE, tables |-> [df_ntpart |-> b]] :
             b \in NtpartTables \cup {Undefined} }

\* ------------------------------------------------------------------------
\* pandas, as the cells of the particle-trapping notebook use it
\* ------------------------------------------------------------------------
Closed == [def |-> TRUE, open |-> FALSE]

Opened == [def |-> TRUE, open |-> TRUE]

NoStore == [def |-> FALSE, open |-> FALSE]

NumOpen ==
    (IF store.open THEN 1 ELSE 0) + (IF store_xray.open THEN 1 ELSE 0)
      + (IF leaked THEN 1 ELSE 0)

Larger(a, b) == IF a > b THEN a ELSE b

\* df.query(cond).reset_index(): the rows that satisfy cond, each behind its
\* position in df under the new first column 'index'; keep[q] tells whether
\* row q satisfies cond
QueryReset(df, keep) ==
    LET Kept(pos) == keep[pos]
        idx == SelectSeq(Iota(Len(df.rows)), Kept)
    IN  [q \in 1..Len(idx) |-> <<idx[q] - 1>> \o df.rows[idx[q]]]

\* rows[0:m]
FirstRows(rows, m) == SubSeq(rows, 1, IF Len(rows) < m THEN Len(rows) ELSE m)

\* sort_values(col): ascending, rows with equal values in their old order
RECURSIVE InsertSorted(_, _, _)
InsertSorted(sorted, row, ix) ==
    IF sorted = <<>> THEN <<row>>
    ELSE IF row[ix] < Head(sorted)[ix] THEN <<row>> \o sorted
    ELSE <<Head(sorted)>> \o InsertSorted(Tail(sorted), row, ix)

RECURSIVE SortRows(_, _)
SortRows(rows, ix) ==
    IF rows = <<>> THEN <<>>
    ELSE InsertSorted(SortRows(SubSeq(rows, 1, Len(rows) - 1), ix), rows[Len(rows)], ix)

\* Series.unique(): the values in order of first appearance
RECURSIVE Unique(_)
Unique(vals) ==
    IF vals = <<>> THEN <<>>
    ELSE LET before == Unique(SubSeq(vals, 1, Len(vals) - 1))
         IN  IF vals[Len(vals)] \in Range(before) THEN before
             ELSE Append(before, vals[Len(vals)])

Named(df, name) == [def |-> TRUE, cols |-> df.cols, rows |-> df.rows, name |-> name]

\* ------------------------------------------------------------------------
\* The particle-trapping notebook, cell by cell
\* ------------------------------------------------------------------------
\* the cells in notebook order
CellOrder == <<"import", "options", "store", "xray", "show", "mu", "unique",
               "anim", "single", "traj", "period">>

Step(cell) ==
    IF scriptPos >= 0 /\ scriptPos < Len(CellOrder) /\ CellOrder[scriptPos + 1] = cell
    THEN scriptPos + 1 ELSE -1

\* from mu2e import ... ; import pandas as pd ; ... ; mu2e_data_path = '...'
ImportCell ==
    /\ nb = "ptrap"
    /\ imported' = TRUE
    /\ last' = Ok("import", {})
    /\ scriptPos' = Step("import")
    /\ UNCHANGED <<nb, mauVars, hpsVars, h5, max_columns, store, store_xray, leaked,
                   peakOpen, df_nttvd, df_ntpart, df_xray, df_nttvd_ele_solo, df_mu,
                   df_mu_single, anim>>

\* pd.options.display.max_columns = 50
OptionsCell ==
    /\ nb = "ptrap"
    /\ IF ~imported
       THEN last' = Raised("options", 1, "NameError") /\ UNCHANGED max_columns
       ELSE last' = Ok("options", {}) /\ max_columns' = 50
    /\ scriptPos' = Step("options")
    /\ UNCHANGED <<nb, imported, mauVars, hpsVars, h5, store, store_xray, leaked,
                   peakOpen, df_nttvd, df_ntpart, df_xray, df_nttvd_ele_solo, df_mu,
                   df_mu_single, anim>>

\* store = pd.HDFStore(...) ; df_nttvd = store.df_nttvd ;
\* df_ntpart = store.df_ntpart ; store.close()
RunStore ==
    LET old == [store |-> store, df_nttvd |-> df_nttvd, df_ntpart |-> df_ntpart]
    IN  IF ~imported THEN [vars |-> old, stmt |-> 1, err |-> "NameError"]
        ELSE IF ~h5.muons.dir THEN [vars |-> old, stmt |-> 1, err |-> "OSError"]
        ELSE LET s1 == [old EXCEPT !.store = Opened]
             IN  IF ~h5.muons.tables.df_nttvd.def
                 THEN [vars |-> s1, stmt |-> 2, err |-> "AttributeError"]
                 ELSE LET s2 == [s1 EXCEPT !.df_nttvd = h5.muons.tables.df_nttvd]
                      IN  IF ~h5.muons.tables.df_ntpart.def
                          THEN [vars |-> s2, stmt |-> 3, err |-> "AttributeError"]
                          ELSE [vars |-> [s2 EXCEPT
                                            !.df_ntpart = h5.muons.tables.df_ntpart,
                                            !.store = Closed],
                                stmt |-> 0, err |-> ""]

StoreCell ==
    /\ nb = "ptrap"
    /\ store' = RunStore.vars.store
    /\ df_nttvd' = RunStore.vars.df_nttvd
    /\ df_ntpart' = RunStore.vars.df_ntpart
    /\ leaked' = (leaked \/ (store.open /\ RunStore.stmt # 1))
    /\ peakOpen' = IF RunStore.stmt = 1 THEN peakOpen
                   ELSE Larger(peakOpen, NumOpen + 1)
    /\ last' = IF RunStore.stmt = 0 THEN Ok("store", {})
               ELSE Raised("store", RunStore.stmt, RunStore.err)
    /\ scriptPos' = Step("store")
    /\ UNCHANGED <<nb, imported, mauVars, hpsVars, h5, max_columns, store_xray,
                   df_xray, df_nttvd_ele_solo, df_mu, df_mu_single, anim>>

\* store_xray = pd.HDFStore(...) ; df_xray = store_xray.df_ntpart ;
\* store_xray.close()
RunXray ==
    LET old == [store_xray |-> store_xray, df_xray |-> df_xray]
    IN  IF ~imported THEN [vars |-> old, stmt |-> 1, err |-> "NameError"]
        ELSE IF ~h5.xray.dir THEN [vars |-> old, stmt |-> 1, err |-> "OSError"]
        ELSE LET s1 == [old EXCEPT !.store_xray = Opened]
             IN  IF ~h5.xray.tables.df_ntpart.def
                 THEN [vars |-> s1, stmt |-> 2, err |-> "AttributeError"]
                 ELSE [vars |-> [s1 EXCEPT !.df_xray = h5.xray.tables.df_ntpart,
                                           !.store_xray = Closed],
                       stmt |-> 0, err |-> ""]

XrayCell ==
    /\ nb = "ptrap"
    /\ store_xray' = RunXray.vars.store_xray
    /\ df_xray' = RunXray.vars.df_xray
    /\ leaked' = (leaked \/ (store_xray.open /\ RunXray.stmt # 1))
    /\ peakOpen' = IF RunXray.stmt = 1 THEN peakOpen
                   ELSE Larger(peakOpen, NumOpen + 1)
    /\ last' = IF RunXray.stmt = 0 THEN Ok("xray", {})
               ELSE Raised("xray", RunXray.stmt, RunXray.err)
    /\ scriptPos' = Step("xray")
    /\ UNCHANGED <<nb, imported, mauVars, hpsVars, h5, max_columns, store,
                   df_nttvd, df_ntpart, df_nttvd_ele_solo, df_mu, df_mu_single, anim>>

\* df_ntpart
ShowCell ==
    /\ nb = "ptrap"
    /\ last' = IF ~df_ntpart.def THEN Raised("show", 1, "NameError")
               ELSE Ok("show", df_ntpart)
    /\ scriptPos' = Step("show")
    /\ UNCHANGED <<nb, imported, mauVars, hpsVars, h5, max_columns, store, store_xray,
                   leaked, peakOpen, df_nttvd, df_ntpart, df_xray, df_nttvd_ele_solo,
                   df_mu, df_mu_single, anim>>

\* df_mu = df_ntpart.query('pdg==13 and pstop>100').reset_index()[0:10] ;
\* df_mu.name = 'Muons' ; mu2e_plot3d_ptrap(df_mu, 'zstop','xstop','ystop', ...,
\*                                          df_xray=df_xray, color='pstop', ...)
StoppedMuons(df) ==
    LET IsMuon(row) == row[ColIx(df, "pdg")] = 13 /\ row[ColIx(df, "pstop")] > 100
    IN  Frame(<<"index">> \o df.cols,
              FirstRows(QueryReset(df, [q \in 1..Len(df.rows) |-> IsMuon(df.rows[q])]), 10))

Scatter(df, x, y, z, color) ==
    { <<row[ColIx(df, x)], row[ColIx(df, y)], row[ColIx(df, z)], row[ColIx(df, color)]>> :
        row \in Range(df.rows) }

MuCell ==
    /\ nb = "ptrap"
    /\ IF ~df_ntpart.def
       THEN last' = Raised("mu", 1, "NameError") /\ UNCHANGED df_mu
       ELSE /\ df_mu' = Named(StoppedMuons(df_ntpart), "Muons")
            /\ last' = IF ~imported \/ ~df_xray.def THEN Raised("mu", 3, "NameError")
                       ELSE Ok("mu", [points |-> Scatter(StoppedMuons(df_ntpart),
                                                         "zstop", "xstop", "ystop", "pstop"),
                                      xray |-> Len(df_xray.rows)])
    /\ scriptPos' = Step("mu")
    /\ UNCHANGED <<nb, imported, mauVars, hpsVars, h5, max_columns, store, store_xray,
                   leaked, peakOpen, df_nttvd, df_ntpart, df_xray, df_nttvd_ele_solo,
                   df_mu_single, anim>>

\* df_mu.runevt.unique()
UniqueCell ==
    /\ nb = "ptrap"
    /\ last' = IF ~df_mu.def THEN Raised("unique", 1, "NameError")
               ELSE Ok("unique", Unique(Column(df_mu, "runevt")))
    /\ scriptPos' = Step("unique")
    /\ UNCHANGED <<nb, imported, mauVars, hpsVars, h5, max_columns, store, store_xray,
                   leaked, peakOpen, df_nttvd, df_ntpart, df_xray, df_nttvd_ele_solo,
                   df_mu, df_mu_single, anim>>

\* g, fig = mu2e_plot3d_ptrap_anim(df_nttvd_ele_solo,'z','x','y',df_xray, ...)
AnimCell ==
    /\ nb = "ptrap"
    /\ IF ~imported \/ ~df_nttvd_ele_solo.def \/ ~df_xray.def
       THEN last' = Raised("anim", 1, "NameError") /\ UNCHANGED anim
       ELSE /\ anim' = Bound(Scatter(df_nttvd_ele_solo, "z", "x", "y", "time"))
            /\ last' = Ok("anim", {})
    /\ scriptPos' = Step("anim")
    /\ UNCHANGED <<nb, imported, mauVars, hpsVars, h5, max_columns, store, store_xray,
                   leaked, peakOpen, df_nttvd, df_ntpart, df_xray, df_nttvd_ele_solo,
                   df_mu, df_mu_single>>

\* df_mu_single = df_nttvd.query('runevt==115453').sort_values('time') ;
\* df_mu_single.name = 'Muon' ; df_mu_single
OneMuon(df) ==
    LET IsEvent(row) == row[ColIx(df, "runevt")] = 115453
    IN  Frame(df.cols, SortRows(SelectSeq(df.rows, IsEvent), ColIx(df, "time")))

SingleCell ==
    /\ nb = "ptrap"
    /\ IF ~df_nttvd.def
       THEN last' = Raised("single", 1, "NameError") /\ UNCHANGED df_mu_single
       ELSE /\ df_mu_single' = Named(OneMuon(df_nttvd), "Muon")
            /\ last' = Ok("single", Named(OneMuon(df_nttvd), "Muon"))
    /\ scriptPos' = Step("single")
    /\ UNCHANGED <<nb, imported, mauVars, hpsVars, h5, max_columns, store, store_xray,
                   leaked, peakOpen, df_nttvd, df_ntpart, df_xray, df_nttvd_ele_solo,
                   df_mu, anim>>

\* mu2e_plot3d_ptrap_traj(df_mu_single,'z','x','y',df_xray=df_xray, ...)
TrajCell ==
    /\ nb = "ptrap"
    /\ last' = IF ~imported \/ ~df_mu_single.def \/ ~df_xray.def
               THEN Raised("traj", 1, "NameError")
               ELSE Ok("traj", [q \in 1..Len(df_mu_single.rows) |->
                                  <<df_mu_single.rows[q][ColIx(df_mu_single, "z")],
                                    df_mu_single.rows[q][ColIx(df_mu_single, "x")],
                                    df_mu_single.rows[q][ColIx(df_mu_single, "y")]>>])
    /\ scriptPos' = Step("traj")
    /\ UNCHANGED <<nb, imported, mauVars, hpsVars, h5, max_columns, store, store_xray,
                   leaked, peakOpen, df_nttvd, df_ntpart, df_xray, df_nttvd_ele_solo,
                   df_mu, df_mu_single, anim>>

\* plt.plot(df_mu_single.time, df_mu_single.z) ; title ; xlabel ; ylabel
PeriodCell ==
    /\ nb = "ptrap"
    /\ last' = IF ~df_mu_single.def THEN Raised("period", 1, "NameError")
               ELSE Ok("period", [q \in 1..Len(df_mu_single.rows) |->
                                    <<Column(df_mu_single, "time")[q],
                                      Column(df_mu_single, "z")[q]>>])
    /\ scriptPos' = Step("period")
    /\ UNCHANGED <<nb, imported, mauVars, hpsVars, h5, max_columns, store, store_xray,
                   leaked, peakOpen, df_nttvd, df_ntpart, df_xray, df_nttvd_ele_solo,
                   df_mu, df_mu_single, anim>>

\* ------------------------------------------------------------------------
\* The session
\* ------------------------------------------------------------------------
NoCell == [cell |-> "", ok |-> TRUE, stmt |-> 0, err |-> "", shown |-> {}]

NoFile == [present |-> FALSE, table |-> Undefined]

InitMau ==
    /\ IF nb = "Mau11"
       THEN /\ disk \in [ga05 : Files("ga05"), mau11 : Files("mau11")]
       ELSE /\ disk = [ga05 |-> NoFile, mau11 |-> NoFile]
    /\ df_ga05 = Undefined
    /\ df_mau11 = Undefined
    /\ df_comp = Undefined
    /\ dropDone = FALSE
    /\ seqMerges = 0
    /\ runPos = 0
    /\ firstRun = Undefined

InitHps ==
    /\ IF nb = "hps_kn" THEN fit \in FitObjects
       ELSE fit = MkFit(1, 1, 1, 1, "all", "all")
    /\ ff = Unbound /\ ff1 = Unbound
    /\ labs = Unbound /\ As_1 = Unbound /\ Bs_1 = Unbound
    /\ ns = Unbound /\ ks = Unbound /\ n = Unbound /\ k = Unbound
    /\ Ank = Unbound /\ Bnk = Unbound /\ AB_comb = Unbound

NoDir == [dir |-> FALSE, tables |-> <<>>]

InitTrap ==
    /\ IF nb = "ptrap" THEN h5 \in [muons : MuonFiles, xray : XrayFiles]
       ELSE h5 = [muons |-> NoDir, xray |-> NoDir]
    /\ max_columns = 20
    /\ store = NoStore /\ store_xray = NoStore
    /\ leaked = FALSE
    /\ peakOpen = 0
    /\ df_nttvd = Undefined /\ df_ntpart = Undefined /\ df_xray = Undefined
    /\ df_nttvd_ele_solo = Undefined
    /\ df_mu = Undefined /\ df_mu_single = Undefined
    /\ anim = Unbound
    /\ scriptPos = 0

Init ==
    /\ nb \in {"Mau11", "hps_kn", "ptrap"}
    /\ last = NoCell
    /\ imported = FALSE
    /\ InitMau
    /\ InitHps
    /\ InitTrap

Next ==
    \/ MauImportCell
    \/ HpsImportCell
    \/ LoadCell
    \/ DropCell
    \/ MergeCell
    \/ DiffCell
    \/ QueryGa05Cell
    \/ QueryMau11Cell
    \/ PlotCell
    \/ RunScriptCell
    \/ DeepcopyCell
    \/ SelectCell
    \/ PlotACell
    \/ PlotBCell
    \/ ReshapeCell
    \/ PcolorCell
    \/ PcolorAbsCell
    \/ PcolorCombCell
    \/ ChisqrCell
    \/ ImportCell
    \/ OptionsCell
    \/ StoreCell
    \/ XrayCell
    \/ ShowCell
    \/ MuCell
    \/ UniqueCell
    \/ AnimCell
    \/ SingleCell
    \/ TrajCell
    \/ PeriodCell

Spec == Init /\ [][Next]_vars

\* ------------------------------------------------------------------------
\* Mau11.ipynb: properties
\* ------------------------------------------------------------------------
\* the step is a run of the named cell (every cell records itself in last)
Ran(cell) == last'.cell = cell

KeyOf(df, row) == <<row[ColIx(df, "X")], row[ColIx(df, "Y")], row[ColIx(df, "Z")]>>

Keys(df) == { KeyOf(df, df.rows[r]) : r \in 1..Len(df.rows) }

UniqueKeys(df) ==
    \A r1, r2 \in 1..Len(df.rows) :
        KeyOf(df, df.rows[r1]) = KeyOf(df, df.rows[r2]) => r1 = r2

ValueAt(df, g, c) ==
    LET r == CHOOSE r \in 1..Len(df.rows) : KeyOf(df, df.rows[r]) = g
    IN  df.rows[r][ColIx(df, c)]

Suffixed(suffix) == { Components[q] \o suffix : q \in 1..Len(Components) }

DeltaCols == { "d" \o Components[q] : q \in 1..Len(Components) }

\* one row for every triple of both tables, none for any other triple
RowsAreCommonKeys(c) ==
    /\ CountCol(c, "X") = 1 /\ CountCol(c, "Y") = 1 /\ CountCol(c, "Z") = 1
    /\ Keys(c) = Keys(df_ga05) \cap Keys(df_mau11)
    /\ UniqueKeys(c)

JoinPost(c) ==
    /\ c.def
    /\ Range(c.cols) = {"X", "Y", "Z"} \cup Suffixed("_ga05") \cup Suffixed("_mau11")
    /\ Len(c.cols) = 3 + 2 * Len(Components)
    /\ RowsAreCommonKeys(c)
    /\ \A r \in 1..Len(c.rows) : \A q \in 1..Len(Components) :
          /\ c.rows[r][ColIx(c, Components[q] \o "_ga05")]
                = ValueAt(df_ga05, KeyOf(c, c.rows[r]), Components[q])
          /\ c.rows[r][ColIx(c, Components[q] \o "_mau11")]
                = ValueAt(df_mau11, KeyOf(c, c.rows[r]), Components[q])

\* C1: with unique (X,Y,Z) in both tables, the merge cell run on the result of
\* the drop cell leaves in df_comp the inner join of the two tables on (X,Y,Z):
\* one row per common triple, the GA05 values under _ga05, the Mau11 values
\* under _mau11, and neither R nor Phi.
C1_MergeIsInnerJoin ==
    [][ (Ran("merge") /\ Loaded /\ runPos = 1
            /\ UniqueKeys(df_ga05) /\ UniqueKeys(df_mau11))
        => (last'.ok /\ JoinPost(df_comp')) ]_vars

C1_Witness ==
    /\ last.cell = "merge" /\ last.ok /\ runPos = 2
    /\ UniqueKeys(df_ga05) /\ UniqueKeys(df_mau11)
    /\ Len(df_comp.rows) = 1
    /\ Keys(df_ga05) # Keys(df_mau11)

DiffPost(before, after) ==
    /\ Len(after.rows) = Len(before.rows)
    /\ DeltaCols \subseteq Range(after.cols)
    /\ Range(after.cols) \ Range(before.cols) \subseteq DeltaCols
    /\ Drop(after, DeltaCols) = Drop(before, DeltaCols)
    /\ \A r \in 1..Len(after.rows) : \A q \in 1..Len(Components) :
          after.rows[r][ColIx(after, "d" \o Components[q])]
            = after.rows[r][ColIx(after, Components[q] \o "_ga05")]
              - after.rows[r][ColIx(after, Components[q] \o "_mau11")]

\* C2: when the difference cell succeeds, every row has dB<c> = B<c>_ga05 -
\* B<c>_mau11 for the five components, and the cell has changed nothing else:
\* same rows, same X, Y, Z, same _ga05 and _mau11 columns, no other new column.
C2_DiffIsGa05MinusMau11 ==
    [][ (Ran("diff") /\ last'.ok) => DiffPost(df_comp, df_comp') ]_vars

C2_Witness ==
    /\ last.cell = "diff" /\ last.ok
    /\ Len(df_comp.rows) = 2
    /\ \E r \in 1..2 : df_comp.rows[r][ColIx(df_comp, "dBz")] = 38

\* C5: the drop, merge and difference cells leave df_ga05 and df_mau11 as
\* loaded, so the later queries on R and Z still succeed, and every further
\* drop, merge, difference run ends with the df_comp of the first such run.
C5_SourcesKeptRerunSame ==
    [][ /\ (Ran("drop") \/ Ran("merge") \/ Ran("diff"))
            => (df_ga05' = df_ga05 /\ df_mau11' = df_mau11)
        /\ (Loaded /\ (Ran("query_ga05") \/ Ran("query_mau11"))) => last'.ok
        /\ (runPos' \in {3, 4}) => (df_comp' = firstRun') ]_vars

C5_Witness ==
    /\ runPos = 4
    /\ last.cell = "query_ga05" /\ last.ok
    /\ Len(df_comp.rows) > 0
    /\ HasCol(df_ga05, "R") /\ HasCol(df_mau11, "Phi")

\* what a successful difference cell leaves: one row per common triple, each
\* dB<c> the GA05 value minus the Mau11 value at that triple
DeltaRows(c) ==
    /\ RowsAreCommonKeys(c)
    /\ \A r \in 1..Len(c.rows) : \A q \in 1..Len(Components) :
          c.rows[r][ColIx(c, "d" \o Components[q])]
            = ValueAt(df_ga05, KeyOf(c, c.rows[r]), Components[q])
              - ValueAt(df_mau11, KeyOf(c, c.rows[r]), Components[q])

\* C6 as stated: after a successful load, in any sequence of drop, merge and
\* difference cells, the difference cell succeeds exactly when the merge cell
\* has run at least once since the last drop.
C6_DiffOkIffMergedSinceDrop ==
    [][ (Ran("diff") /\ Loaded) => (last'.ok <=> (dropDone /\ seqMerges >= 1)) ]_vars

\* C6 amended: after a successful load the difference cell fails, leaving
\* df_comp as it was, when no merge has run since the last drop (right after
\* a drop: KeyError at its first statement, on Bx_ga05); it succeeds when one
\* or two merges have run since the last drop; and whenever it succeeds with
\* unique (X,Y,Z) in both tables, df_comp has one row per common triple with
\* dB<c> = GA05 - Mau11 there.
C6_DiffAfterOneOrTwoMerges ==
    [][ (Ran("diff") /\ Loaded) =>
          /\ (~dropDone \/ seqMerges = 0) => (~last'.ok /\ df_comp' = df_comp)
          /\ (dropDone /\ seqMerges = 0)
                => (last'.err = "KeyError" /\ last'.stmt = 1 /\ ~HasCol(df_comp, "Bx_ga05"))
          /\ (dropDone /\ seqMerges \in {1, 2}) => last'.ok
          /\ ~last'.ok => df_comp' = df_comp
          /\ (last'.ok /\ UniqueKeys(df_ga05) /\ UniqueKeys(df_mau11))
                => DeltaRows(df_comp') ]_vars

C6_Witness ==
    /\ last.cell = "diff" /\ last.ok /\ seqMerges = 2
    /\ UniqueKeys(df_ga05) /\ UniqueKeys(df_mau11)
    /\ Len(df_comp.rows) = 2

\* ------------------------------------------------------------------------
\* hps_kn.ipynb: properties
\* ------------------------------------------------------------------------
\* the values of the parameters whose name contains the letter, in order
AList == Values(WithLetter(ff1.v.params, "A"))

BList == Values(WithLetter(ff1.v.params, "B"))

NsValue == Lookup(ff1.v.params, <<"n", "s">>).value

KsValue == Lookup(ff1.v.params, <<"m", "s">>).value

\* g is the list laid out row by row on NsValue rows and KsValue columns
GridOf(g, list) ==
    /\ g.def
    /\ NRows(g.v) = NsValue
    /\ \A i \in 0..(NsValue - 1) :
          /\ Len(g.v[i + 1]) = KsValue
          /\ \A j \in 0..(KsValue - 1) : g.v[i + 1][j + 1] = list[i * KsValue + j + 1]

CombOf(g, a, b) ==
    /\ g.def
    /\ NRows(g.v) = NsValue
    /\ \A i \in 1..NsValue :
          /\ Len(g.v[i]) = KsValue
          /\ \A j \in 1..KsValue :
                g.v[i][j] = a.v[i][j] * a.v[i][j] + b.v[i][j] * b.v[i][j]

\* C3 as stated: the cell lays the A values and the B values out row by row
\* on ns rows and ks columns and sets AB_comb to Ank^2 + Bnk^2 when both
\* counts equal ns*ks, and for any other count fails and assigns neither Ank
\* nor Bnk.
C3_ReshapeAssignsBothOrNone ==
    [][ (Ran("reshape") /\ ff1.def) =>
          IF Len(AList) = NsValue * KsValue /\ Len(BList) = NsValue * KsValue
          THEN /\ last'.ok
               /\ GridOf(Ank', AList) /\ GridOf(Bnk', BList)
               /\ CombOf(AB_comb', Ank', Bnk')
          ELSE ~last'.ok /\ Ank' = Ank /\ Bnk' = Bnk ]_vars

\* C3 amended: as stated when both counts equal ns*ks.  When the A count
\* differs, the A reshape raises ValueError and Ank, Bnk and AB_comb keep
\* their values.  When only the B count differs, Ank has already been
\* assigned the A grid; the B reshape raises ValueError and Bnk and AB_comb
\* keep their values.
C3_ReshapeStopsAtFirstBadCount ==
    [][ (Ran("reshape") /\ ff1.def) =>
          /\ (Len(AList) = NsValue * KsValue /\ Len(BList) = NsValue * KsValue)
                => /\ last'.ok
                   /\ GridOf(Ank', AList) /\ GridOf(Bnk', BList)
                   /\ CombOf(AB_comb', Ank', Bnk')
          /\ Len(AList) # NsValue * KsValue
                => /\ ~last'.ok /\ last'.stmt = 4 /\ last'.err = "ValueError"
                   /\ Ank' = Ank /\ Bnk' = Bnk /\ AB_comb' = AB_comb
          /\ (Len(AList) = NsValue * KsValue /\ Len(BList) # NsValue * KsValue)
                => /\ ~last'.ok /\ last'.stmt = 5 /\ last'.err = "ValueError"
                   /\ GridOf(Ank', AList)
                   /\ Bnk' = Bnk /\ AB_comb' = AB_comb ]_vars

C3_Witness ==
    /\ last.cell = "reshape" /\ ~last.ok /\ last.stmt = 5
    /\ Ank.def /\ NRows(Ank.v) = 2 /\ NCols(Ank.v) = 2
    /\ Ank.v[2][1] = 11
    /\ ~Bnk.def /\ ~AB_comb.def

\* the parameters of one letter that are free and whose first index is not 0
FreeNonZero(letter) ==
    LET Test(prm) == /\ Contains(prm.name, letter)
                     /\ prm.vary
                     /\ Split(prm.name, "_")[2] # <<"0">>
    IN  SelectSeq(ff1.v.params, Test)

\* C7: after the selection cell, As_1 and Bs_1 hold the values of the free
\* A and B parameters with first index not 0, labs the names of those A
\* parameters without their first two characters, and the labels fit the B
\* plot: as many labels as B values, the i-th label being the index suffix of
\* the i-th selected B parameter.
C7_LabelsFitBothPlots ==
    (last.cell = "select" /\ last.ok) =>
        /\ As_1.v = Values(FreeNonZero("A"))
        /\ Bs_1.v = Values(FreeNonZero("B"))
        /\ Len(labs.v) = Len(As_1.v)
        /\ \A i \in 1..Len(labs.v) : labs.v[i] = From2(FreeNonZero("A")[i].name)
        /\ Len(Bs_1.v) = Len(labs.v)
        /\ \A i \in 1..Len(Bs_1.v) : labs.v[i] = From2(FreeNonZero("B")[i].name)

\* one heat map of grid C over the corner grids: each C[i][j] exactly once,
\* between (n,k) = (i,j) and (i+1,j+1), n along the axis labelled n
HeatmapOf(fig, C) ==
    /\ fig.xlabel = "n" /\ fig.ylabel = "k"
    /\ Len(fig.quads) = NsValue * KsValue
    /\ \A i \in 0..(NsValue - 1) : \A j \in 0..(KsValue - 1) :
          \E q \in 1..Len(fig.quads) :
              fig.quads[q] = [x0 |-> i, y0 |-> j, x1 |-> i + 1, y1 |-> j + 1,
                              c |-> C[i + 1][j + 1]]

CornerGrids ==
    /\ NRows(n.v) = ns.v + 1 /\ NRows(k.v) = ns.v + 1
    /\ \A i \in 0..ns.v :
          /\ Len(n.v[i + 1]) = ks.v + 1 /\ Len(k.v[i + 1]) = ks.v + 1
          /\ \A j \in 0..ks.v : n.v[i + 1][j + 1] = i /\ k.v[i + 1][j + 1] = j

\* C8: n and k have ns+1 rows and ks+1 columns with n[i][j] = i and
\* k[i][j] = j; once the reshape cell has succeeded the heat maps are drawn,
\* and each draws every coefficient of its ns x ks grid exactly once, in the
\* cell between (n,k) = (i,j) and (i+1,j+1), with n on the axis labelled n.
C8_HeatmapCellsMatchGrid ==
    /\ (n.def /\ k.def) => CornerGrids
    /\ (Ank.def /\ Bnk.def /\ last.cell = "pcolor")
          => /\ last.ok
             /\ HeatmapOf(last.shown[1], Ank.v)
             /\ HeatmapOf(last.shown[2], Bnk.v)
    /\ (AB_comb.def /\ last.cell = "pcolor_comb")
          => last.ok /\ HeatmapOf(last.shown[1], AB_comb.v)

C8_Witness ==
    /\ last.cell = "pcolor_comb" /\ last.ok
    /\ ns.v = 2 /\ ks.v = 1
    /\ Len(last.shown[1].quads) = 2

\* ------------------------------------------------------------------------
\* Properties: errors
\* ------------------------------------------------------------------------
\* the column c of df, or nothing when df has no such column
ColumnOrNone(df, c) == IF df.def /\ HasCol(df, c) THEN <<Column(df, c)>> ELSE <<>>

\* the cells of one statement that assign a notebook variable, and the cells
\* that assign none
OneStmtCells == {"drop", "merge", "deepcopy", "run", "mu", "anim", "single"}

\* C4: in every notebook, a cell in which a call raises ends at that
\* statement with the error the call raised: the cell is reported as failed
\* at a statement with that error, and every variable that the statement or a
\* later statement of the cell assigns keeps the value, or undefinedness, it
\* had before the cell started; a store opened by an earlier statement of
\* the cell stays open, because the closing statement is not reached.
C4_ErrorsEndTheCell ==
    [][ (~last'.ok) =>
          /\ last'.stmt >= 1 /\ last'.err # ""
          /\ last'.cell = "load" =>
                /\ df_mau11' = df_mau11
                /\ last'.stmt = 1 => df_ga05' = df_ga05
          /\ last'.cell = "drop" => df_comp' = df_comp
          /\ last'.cell = "merge" => df_comp' = df_comp
          /\ last'.cell = "diff" =>
                \A q \in 1..Len(Components) :
                    q >= last'.stmt =>
                       ColumnOrNone(df_comp', "d" \o Components[q])
                         = ColumnOrNone(df_comp, "d" \o Components[q])
          /\ last'.cell = "select" =>
                /\ Bs_1' = Bs_1
                /\ last'.stmt <= 2 => As_1' = As_1
                /\ last'.stmt = 1 => labs' = labs
          /\ last'.cell = "reshape" =>
                /\ Bnk' = Bnk /\ AB_comb' = AB_comb
                /\ last'.stmt <= 4 => Ank' = Ank
                /\ last'.stmt <= 3 => (n' = n /\ k' = k)
                /\ last'.stmt <= 2 => ks' = ks
                /\ last'.stmt = 1 => ns' = ns
          /\ last'.cell = "store" =>
                /\ df_ntpart' = df_ntpart
                /\ last'.stmt <= 2 => df_nttvd' = df_nttvd
                /\ last'.stmt = 1 => store' = store
                /\ last'.stmt >= 2 => store'.open
          /\ last'.cell = "xray" =>
                /\ df_xray' = df_xray
                /\ last'.stmt = 1 => store_xray' = store_xray
                /\ last'.stmt >= 2 => store_xray'.open
          /\ last'.cell \in {"deepcopy", "run"} => <<ff, ff1>>' = <<ff, ff1>>
          /\ (last'.cell = "mu" /\ last'.stmt = 1) => df_mu' = df_mu
          /\ last'.cell = "anim" => anim' = anim
          /\ last'.cell = "single" => df_mu_single' = df_mu_single
          /\ last'.cell \notin OneStmtCells
                           \cup {"load", "diff", "select", "reshape", "store", "xray"} =>
                <<df_ga05, df_mau11, df_comp, hpsVars, max_columns, store, store_xray,
                  df_nttvd, df_ntpart, df_xray, df_mu, df_mu_single, anim>>'
                = <<df_ga05, df_mau11, df_comp, hpsVars, max_columns, store, store_xray,
                    df_nttvd, df_ntpart, df_xray, df_mu, df_mu_single, anim>>
      ]_vars

\* the second load of the load cell has raised after the first was assigned
C4_Witness ==
    /\ last.cell = "load" /\ ~last.ok /\ last.stmt = 2
    /\ df_ga05.def /\ ~df_mau11.def

\* ------------------------------------------------------------------------
\* Properties: the particle-trapping notebook
\* ------------------------------------------------------------------------
\* both files are there with all their tables, so that every call to
\* HDFStore and every table read succeeds
AllTablesStored ==
    /\ h5.muons.dir /\ h5.muons.tables.df_nttvd.def /\ h5.muons.tables.df_ntpart.def
    /\ h5.xray.dir /\ h5.xray.tables.df_ntpart.def

\* C9: when the cells of the particle-trapping notebook run once each from
\* top to bottom and both files hold all their tables, no cell fails: every
\* table a cell uses has been assigned by an earlier statement.
C9_TopToBottomDefinesEveryTable ==
    (nb = "ptrap" /\ AllTablesStored /\ scriptPos >= 1) => last.ok

\* C10: in the particle-trapping notebook at most one store is ever open at
\* the same moment, and when a load cell has completed without error no
\* store is open.
C10_StoresClosedByTheirCell ==
    /\ peakOpen <= 1
    /\ (last.cell \in {"store", "xray"} /\ last.ok) => NumOpen = 0

====
